---- MODULE Spec2Model ----
(***************************************************************************)
(* Jetman: the physics core of src/src/physics.rs, src/src/terrain.rs and  *)
(* src/src/world.rs as a state machine.                                    *)
(*                                                                         *)
(* Numbers.  The program computes in f32.  The model computes in fixed     *)
(* point: every length, velocity, acceleration and time step is an integer *)
(* count of 1/Scale units, products and quotients are rounded to the       *)
(* nearest unit (Rdiv) and the square root is the integer square root      *)
(* (ISqrt).  Comparisons of a length against a whole number of units are   *)
(* therefore exact.  Masses are whole numbers.                             *)
(*                                                                         *)
(* Option<ItemId> is a sequence of length 0 (None) or 1 (Some(i)); the     *)
(* index i is 0-based as in the program, so it is items[i + 1] here.       *)
(* Every item carries a tag (its rank at construction) that the program    *)
(* does not have: it names the item when indices shift.                    *)
(***************************************************************************)
EXTENDS Integers, Sequences, FiniteSets, TLC

VARIABLES world, scene, pre, inp, mid, phase, tick, drawn, call

vars == <<world, scene, pre, inp, mid, phase, tick, drawn, call>>

---------------------------------------------------------------------------
(* Bounds of the model *)

\* number of update calls explored from construction
MaxTicks == 3

---------------------------------------------------------------------------
(* Fixed point arithmetic *)

\* units per 1.0
Scale == 10 * 10

Abs(a) == IF a < 0 THEN -a ELSE a

\* a / b rounded to the nearest integer, halves away from zero (b > 0)
Rdiv(a, b) == IF a >= 0 THEN (2 * a + b) \div (2 * b) ELSE -((2 * (-a) + b) \div (2 * b))

\* the product of two fixed point numbers
Mul(a, b) == Rdiv(a * b, Scale)

RECURSIVE SqrtSearch(_, _, _)
SqrtSearch(n, lo, hi) ==
    IF lo >= hi THEN lo
    ELSE LET m == (lo + hi + 1) \div 2
         IN IF m * m <= n THEN SqrtSearch(n, m, hi) ELSE SqrtSearch(n, lo, m - 1)

\* floor of the square root of n, 0 <= n < 2^31
ISqrt(n) == SqrtSearch(n, 0, 46340)

---------------------------------------------------------------------------
(* Vec2 *)

Vec(a, b) == [x |-> a, y |-> b]

\* a vector given in whole units
V(a, b) == Vec(a * Scale, b * Scale)

ZERO == Vec(0, 0)

VAdd(a, b) == Vec(a.x + b.x, a.y + b.y)

VSub(a, b) == Vec(a.x - b.x, a.y - b.y)

\* vector times fixed point scalar
VScale(a, s) == Vec(Mul(a.x, s), Mul(a.y, s))

\* vector divided by a whole number
VDivInt(a, n) == Vec(Rdiv(a.x, n), Rdiv(a.y, n))

LengthSquared(a) == a.x * a.x + a.y * a.y

Length(a) == ISqrt(LengthSquared(a))

Dot(a, b) == Mul(a.x, b.x) + Mul(a.y, b.y)

\* squared distance of two points, exact (used to state properties)
Dist2(a, b) == (a.x - b.x) * (a.x - b.x) + (a.y - b.y) * (a.y - b.y)

---------------------------------------------------------------------------
(* physics.rs: Body *)

BodyNew(position, mass) ==
    [position |-> position, velocity |-> ZERO, acceleration |-> ZERO, mass |-> mass]

\* Body::apply_force: acceleration += force / mass
BodyApplyForce(b, force) ==
    [b EXCEPT !.acceleration = VAdd(@, VDivInt(force, b.mass))]

\* a clear_forces that forgets the velocity
BodyClearForcesAccOnly(b) == [b EXCEPT !.acceleration = VScale(@, 0)]

\* Body::clear_forces: velocity *= 0.0; acceleration *= 0.0
BodyClearForces(b) ==
    [b EXCEPT !.velocity = VScale(@, 0), !.acceleration = VScale(@, 0)]

\* an explicit Euler step: the position moves by the old velocity
BodyUpdateExplicit(b, dt) ==
    [b EXCEPT !.velocity = VAdd(@, VScale(b.acceleration, dt)),
              !.position = VAdd(@, VScale(b.velocity, dt)),
              !.acceleration = ZERO]

\* Body::update: velocity += acceleration * dt; position += velocity * dt;
\* acceleration = ZERO
BodyUpdate(b, dt) ==
    LET v == VAdd(b.velocity, VScale(b.acceleration, dt))
    IN [b EXCEPT !.velocity = v,
                 !.position = VAdd(@, VScale(v, dt)),
                 !.acceleration = ZERO]

---------------------------------------------------------------------------
(* glam: Vec2::normalize *)

\* what glam's normalize() returns for a vector of length zero:
\* self * (1 / 0.0) = (0 * inf, 0 * inf) = (NaN, NaN)
NaNVec == [x |-> 0, y |-> 0, nan |-> TRUE]

IsFinite(v) == "nan" \notin DOMAIN v

\* v / |v| in fixed point (a vector of length Scale)
Normalize(v) ==
    LET len == Length(v)
    IN IF len = 0 THEN NaNVec
       ELSE Vec(Rdiv(v.x * Scale, len), Rdiv(v.y * Scale, len))

---------------------------------------------------------------------------
(* terrain.rs *)

Rectangle(x, y, w, h) == [kind |-> "Rectangle", x |-> x, y |-> y, w |-> w, h |-> h]

Line(p1, p2) == [kind |-> "Line", p1 |-> p1, p2 |-> p2]

Circle(center, radius) == [kind |-> "Circle", center |-> center, radius |-> radius]

Polygon(vertices) == [kind |-> "Polygon", vertices |-> vertices]

\* the contact radius of lines and circles, 10.0
ContactRadius == 10 * Scale

\* 0.00001 is one unit of 1 / (Scale * EpsDen)
EpsDen == 10 * 10 * 10

\* floor and remainder of n * 10^digits / d, d > 0, one decimal digit at a time
RECURSIVE LongDiv(_, _, _, _)
LongDiv(q, r, d, digits) ==
    IF digits = 0 THEN <<q, r>>
    ELSE LongDiv(q * 10 + (r * 10) \div d, (r * 10) % d, d, digits - 1)

\* the least integer >= n / (dy + 0.00001), n in square units, dy in units, dy # 0
CeilQuotEps(n, dy) ==
    LET d0 == dy * EpsDen + 1
        d == Abs(d0)
        m == IF d0 < 0 THEN -n ELSE n
        qr == LongDiv(m \div d, m % d, d, 3)
    IN IF qr[2] = 0 THEN qr[1] ELSE qr[1] + 1

\* one edge of the crossing test of point_in_polygon
EdgeCrosses(point, pi, pj) ==
    /\ (pi.y > point.y) # (pj.y > point.y)
    /\ point.x - pi.x < CeilQuotEps((pj.x - pi.x) * (point.y - pi.y), pj.y - pi.y)

RECURSIVE PipLoop(_, _, _, _, _)
PipLoop(point, polygon, i, j, inside) ==
    IF i > Len(polygon) THEN inside
    ELSE PipLoop(point, polygon, i + 1, i,
                 IF EdgeCrosses(point, polygon[i], polygon[j]) THEN ~inside ELSE inside)

\* point_in_polygon: j starts at the last vertex, i runs over all vertices
point_in_polygon(point, polygon) ==
    PipLoop(point, polygon, 1, Len(polygon), FALSE)

\* a reflection that keeps the whole speed
ReflectUndamped(v, n) ==
    IF ~IsFinite(n) THEN NaNVec
    ELSE VSub(v, VScale(n, 2 * Dot(v, n)))

\* v -= 2 * v.dot(n) * n; v *= 0.5
Reflect(v, n) ==
    IF ~IsFinite(n) THEN NaNVec
    ELSE VScale(VSub(v, VScale(n, 2 * Dot(v, n))), Scale \div 2)

\* a rectangle test that counts the edges as inside
CollideRectangleClosed(body, rect) ==
    LET pos == body.position
    IN IF /\ pos.x >= rect.x
          /\ pos.x <= rect.x + rect.w
          /\ pos.y >= rect.y
          /\ pos.y <= rect.y + rect.h
       THEN [body EXCEPT !.position.y = rect.y - Scale,
                         !.velocity.y = Mul(-body.velocity.y, Scale \div 2)]
       ELSE body

\* check_collision, lines 77-87
CollideRectangle(body, rect) ==
    LET pos == body.position
    IN IF /\ pos.x > rect.x
          /\ pos.x < rect.x + rect.w
          /\ pos.y > rect.y
          /\ pos.y < rect.y + rect.h
       THEN [body EXCEPT !.position.y = rect.y - Scale,
                         !.velocity.y = Mul(-body.velocity.y, Scale \div 2)]
       ELSE body

\* the projection parameter is counted in 1 / TDen
TDen == 10 * 10 * 10 * 10

\* (to_pos.dot(line) / len_sq).clamp(0.0, 1.0), len_sq > 0
ClampedT(to_pos, line, len_sq) ==
    LET dot == to_pos.x * line.x + to_pos.y * line.y
    IN IF dot <= 0 THEN 0
       ELSE IF dot >= len_sq THEN TDen
       ELSE LongDiv(0, dot, len_sq, 4)[1]

\* check_collision, lines 88-107
CollideLine(body, p1, p2) ==
    LET pos == body.position
        line == VSub(p2, p1)
        to_pos == VSub(pos, p1)
        len_sq == LengthSquared(line)
    IN IF len_sq = 0 THEN body
       ELSE LET t == ClampedT(to_pos, line, len_sq)
                closest == VAdd(p1, Vec(Rdiv(line.x * t, TDen), Rdiv(line.y * t, TDen)))
                dist == Length(VSub(pos, closest))
            IN IF dist < ContactRadius
               THEN LET normal == Normalize(VSub(pos, closest))
                    IN [body EXCEPT
                          !.position = IF IsFinite(normal)
                                       THEN VAdd(closest, VScale(normal, ContactRadius))
                                       ELSE NaNVec,
                          !.velocity = Reflect(body.velocity, normal)]
               ELSE body

\* check_collision, lines 108-120
CollideCircle(body, center, radius) ==
    LET pos == body.position
        delta == VSub(pos, center)
        dist == Length(delta)
        min_dist == radius + ContactRadius
    IN IF dist < min_dist
       THEN LET normal == Normalize(delta)
            IN [body EXCEPT
                  !.position = IF IsFinite(normal)
                               THEN VAdd(center, VScale(normal, min_dist))
                               ELSE NaNVec,
                  !.velocity = Reflect(body.velocity, normal)]
       ELSE body

\* check_collision, lines 121-126
CollidePolygon(body, vertices) ==
    IF point_in_polygon(body.position, vertices)
    THEN [body EXCEPT !.position.y = @ - 2 * Scale,
                      !.velocity.y = Mul(-body.velocity.y, Scale \div 2)]
    ELSE body

\* check_collision: the body after the call.  Every comparison with a NaN is
\* false, so a body at a NaN position passes no test and is left as it is.
check_collision(body, terrain) ==
    IF ~IsFinite(body.position) THEN body ELSE
    CASE terrain.kind = "Rectangle" -> CollideRectangle(body, terrain)
      [] terrain.kind = "Line" -> CollideLine(body, terrain.p1, terrain.p2)
      [] terrain.kind = "Circle" -> CollideCircle(body, terrain.center, terrain.radius)
      [] terrain.kind = "Polygon" -> CollidePolygon(body, terrain.vertices)

---------------------------------------------------------------------------
(* physics.rs: Jetman, Item, Teleporter *)

None == <<>>

Some(i) == <<i>>

\* vector_from_angle(heading) * 0.1, heading = h tenths of a radian
\* (cos and sin by their series up to the 4th and 5th power)
ThrustVec(h) ==
    Vec(Rdiv(240000 - 1200 * h * h + h * h * h * h, 24000),
        Rdiv(1200000 * h - 2000 * h * h * h + h * h * h * h * h, 1200000))

JetmanNew(start) ==
    [body |-> BodyNew(start, 1),
     heading |-> 0,
     link_distance |-> 50 * Scale,
     linked_item |-> None,
     thrusting |-> 0]

\* Jetman::apply_thrust
apply_thrust(j) ==
    [j EXCEPT !.body = BodyApplyForce(@, ThrustVec(j.heading)), !.thrusting = 2]

\* Jetman::turn_left: heading -= 0.1
turn_left(j) == [j EXCEPT !.heading = @ - 1]

\* Jetman::turn_right: heading += 0.1
turn_right(j) == [j EXCEPT !.heading = @ + 1]

\* an update that stops the flame timer at 0
JetmanUpdateClamped(j, dt) ==
    [j EXCEPT !.body = BodyUpdate(@, dt),
              !.thrusting = IF @ > 0 THEN @ - 1 ELSE 0]

\* Jetman::update
JetmanUpdate(j, dt) == [j EXCEPT !.body = BodyUpdate(@, dt), !.thrusting = @ - 1]

\* Item::new.  Not in the program: tag, the rank of the item at construction;
\* spawn, where it was constructed; linked, it has been the linked item at the
\* end of an auto-link step; hit, a terrain collision has changed its body
ItemNew(pos, tag) ==
    [body |-> BodyNew(pos, 1), tag |-> tag, spawn |-> pos,
     linked |-> FALSE, hit |-> FALSE]

\* Jetman::draw: the flame is drawn
FlameDrawn(j) == j.thrusting > 0

---------------------------------------------------------------------------
(* world.rs *)

\* screen_width() and screen_height() of the default window
ScreenW == 800

ScreenH == 600

\* the segments of the ground polygon
Segments == 12

\* generate_ground_poly: jitter[i] is the i-th random draw from [0, 80)
GroundTop(jitter) ==
    [k \in 1..(Segments + 1) |->
        Vec(Rdiv((k - 1) * ScreenW * Scale, Segments), 500 * Scale - jitter[k])]

GroundBottom ==
    [k \in 1..(Segments + 1) |->
        Vec(Rdiv((Segments + 1 - k) * ScreenW * Scale, Segments), ScreenH * Scale)]

generate_ground_poly(jitter) == GroundTop(jitter) \o GroundBottom

\* World::new, from a layout [jet, items, jitter]; the program's own layout is
\* jet = (200, 200), items = <<(100, 200)>>.  The fields update() writes:
\* (linked_tag, not in the program: the tag of the item the link was set to;
\*  panicked: an index out of bounds has ended the program)
WorldNew(layout) ==
    [jetman |-> JetmanNew(layout.jet),
     items |-> [k \in 1..Len(layout.items) |-> ItemNew(layout.items[k], k)],
     linked_tag |-> None,
     panicked |-> FALSE]

\* World::new: the fields update() only reads
SceneNew(layout) ==
    [teleports |-> <<[position |-> V(400, 300)]>>,
     gravity |-> Vec(0, 1),
     terrain |-> <<Polygon(generate_ground_poly(layout.jitter))>>]

\* Vec::remove of the k-th element (1-based)
RemoveAt(s, k) == [i \in 1..(Len(s) - 1) |-> IF i < k THEN s[i] ELSE s[i + 1]]

\* an input step that lets gravity act on the items as well
InputStepGravityOnAll(w, input, gravity) ==
    LET j1 == IF input.thrust THEN apply_thrust(w.jetman) ELSE w.jetman
        j2 == IF input.turn_left THEN turn_left(j1) ELSE j1
        j3 == IF input.turn_right THEN turn_right(j2) ELSE j2
    IN [w EXCEPT !.jetman = [j3 EXCEPT !.body = BodyApplyForce(@, gravity)],
                 !.items = [k \in 1..Len(w.items) |->
                              [w.items[k] EXCEPT !.body = BodyApplyForce(@, gravity)]]]

\* update, lines 67-78: thrust, turns, gravity on Jetman
InputStep(w, input, gravity) ==
    LET j1 == IF input.thrust THEN apply_thrust(w.jetman) ELSE w.jetman
        j2 == IF input.turn_left THEN turn_left(j1) ELSE j1
        j3 == IF input.turn_right THEN turn_right(j2) ELSE j2
    IN [w EXCEPT !.jetman = [j3 EXCEPT !.body = BodyApplyForce(@, gravity)]]

\* the trigger radius of a teleporter, 10.0
TriggerRadius == 10 * Scale

\* update, lines 84-93: some teleporter is within the trigger radius of the item
Teleporting(item, teleports) ==
    \E t \in 1..Len(teleports) :
        Length(VSub(item.body.position, teleports[t].position)) < TriggerRadius

\* a teleport step that removes the item and keeps the link
TeleportStepKeepsLink(w, teleports) ==
    IF w.panicked \/ w.jetman.linked_item = None THEN w
    ELSE LET id == w.jetman.linked_item[1]
         IN IF id >= Len(w.items) THEN [w EXCEPT !.panicked = TRUE]
            ELSE IF Teleporting(w.items[id + 1], teleports)
                 THEN [w EXCEPT !.items = RemoveAt(@, id + 1)]
                 ELSE w

\* a teleport step that puts the item back at its spawn point and keeps it
TeleportStepRespawns(w, teleports) ==
    IF w.panicked \/ w.jetman.linked_item = None THEN w
    ELSE LET id == w.jetman.linked_item[1]
         IN IF id >= Len(w.items) THEN [w EXCEPT !.panicked = TRUE]
            ELSE IF Teleporting(w.items[id + 1], teleports)
                 THEN [w EXCEPT !.jetman.linked_item = None,
                                !.linked_tag = None,
                                !.items[id + 1].body =
                                    BodyClearForces([@ EXCEPT !.position = V(100, 200)])]
                 ELSE w

RECURSIVE FirstTeleporting(_, _, _)
FirstTeleporting(items, teleports, k) ==
    IF k > Len(items) THEN 0
    ELSE IF Teleporting(items[k], teleports) THEN k
    ELSE FirstTeleporting(items, teleports, k + 1)

\* a teleport step that delivers the first item in the trigger radius, linked
\* or not
TeleportStepAnyItem(w, teleports) ==
    IF w.panicked THEN w
    ELSE LET k == FirstTeleporting(w.items, teleports, 1)
         IN IF k = 0 THEN w
            ELSE [w EXCEPT !.jetman.linked_item = None,
                           !.linked_tag = None,
                           !.items = RemoveAt(@, k)]

\* update, lines 80-98: the linked item is delivered to a teleporter.
\* items[item_id.0] panics when the index is out of bounds.
TeleportStep(w, teleports) ==
    IF w.panicked \/ w.jetman.linked_item = None THEN w
    ELSE LET id == w.jetman.linked_item[1]
         IN IF id >= Len(w.items) THEN [w EXCEPT !.panicked = TRUE]
            ELSE IF Teleporting(w.items[id + 1], teleports)
                 THEN [w EXCEPT !.jetman.linked_item = None,
                                !.linked_tag = None,
                                !.items = RemoveAt(
                                    [@ EXCEPT ![id + 1].body =
                                        BodyClearForces([@ EXCEPT !.position = V(100, 200)])],
                                    id + 1)]
                 ELSE w

\* a range test against the trigger radius of the teleporters
InLinkRangeTrigger(item, jetman_pos, link_distance) ==
    Length(VSub(item.body.position, jetman_pos)) < TriggerRadius

\* update, line 105: the item is in link range of Jetman
InLinkRange(item, jetman_pos, link_distance) ==
    Length(VSub(item.body.position, jetman_pos)) < link_distance

\* a loop that stops at the first item in range
RECURSIVE AutoLinkLoopFirstWins(_, _, _, _, _)
AutoLinkLoopFirstWins(items, jetman_pos, link_distance, k, l) ==
    IF k > Len(items) THEN l
    ELSE IF InLinkRange(items[k], jetman_pos, link_distance)
         THEN [link |-> Some(k - 1), tag |-> Some(items[k].tag)]
         ELSE AutoLinkLoopFirstWins(items, jetman_pos, link_distance, k + 1, l)

\* update, lines 102-108: the loop over the items; l = [link, tag]
RECURSIVE AutoLinkLoop(_, _, _, _, _)
AutoLinkLoop(items, jetman_pos, link_distance, k, l) ==
    IF k > Len(items) THEN l
    ELSE AutoLinkLoop(items, jetman_pos, link_distance, k + 1,
                      IF InLinkRange(items[k], jetman_pos, link_distance)
                      THEN [link |-> Some(k - 1), tag |-> Some(items[k].tag)]
                      ELSE l)

\* an auto-link step that drops the link of an item out of range
AutoLinkStepRevalidates(w) ==
    IF w.panicked THEN w
    ELSE LET l == AutoLinkLoop(w.items, w.jetman.body.position, w.jetman.link_distance,
                               1, [link |-> None, tag |-> None])
         IN [w EXCEPT !.jetman.linked_item = l.link, !.linked_tag = l.tag]

\* update, lines 100-108: every item in range overwrites the link
AutoLinkStep(w) ==
    IF w.panicked THEN w
    ELSE LET l == AutoLinkLoop(w.items, w.jetman.body.position, w.jetman.link_distance,
                               1, [link |-> w.jetman.linked_item, tag |-> w.linked_tag])
         IN [w EXCEPT !.jetman.linked_item = l.link, !.linked_tag = l.tag,
                      !.items = [k \in 1..Len(w.items) |->
                                   [w.items[k] EXCEPT
                                      !.linked = @ \/ l.link = Some(k - 1)]]]

\* update, lines 110-116: sever
SeverStep(w, input) ==
    IF w.panicked \/ ~input.sever_link \/ w.jetman.linked_item = None THEN w
    ELSE LET id == w.jetman.linked_item[1]
         IN IF id >= Len(w.items)
            THEN [w EXCEPT !.jetman.linked_item = None, !.linked_tag = None,
                           !.panicked = TRUE]
            ELSE [w EXCEPT !.jetman.linked_item = None, !.linked_tag = None,
                           !.items[id + 1].body = BodyClearForces(@)]

\* a solve with the two mass ratios exchanged
SolveBodiesSwapped(jb, ib, jetman_pos, rest_length) ==
    LET delta == VSub(ib.position, jetman_pos)
        distance == Length(delta)
    IN IF distance # 0
       THEN LET direction == Vec(Rdiv(delta.x * Scale, distance),
                                 Rdiv(delta.y * Scale, distance))
                correction == VScale(direction, distance - rest_length)
                total_mass == jb.mass + ib.mass
                jetman_ratio == Rdiv(jb.mass * Scale, total_mass)
                item_ratio == Rdiv(ib.mass * Scale, total_mass)
                relative_velocity == VSub(ib.velocity, jb.velocity)
                projected_velocity == Dot(relative_velocity, direction)
                velocity_correction == VScale(direction, projected_velocity)
            IN [jet |-> [jb EXCEPT
                           !.position = VAdd(@, VScale(correction, jetman_ratio)),
                           !.velocity = VAdd(@, VScale(velocity_correction, jetman_ratio))],
                item |-> [ib EXCEPT
                           !.position = VSub(@, VScale(correction, item_ratio)),
                           !.velocity = VSub(@, VScale(velocity_correction, item_ratio))]]
       ELSE [jet |-> jb, item |-> ib]

\* a solve that takes the x axis as the direction of two coincident bodies
SolveBodiesAxisFallback(jb, ib, jetman_pos, rest_length) ==
    LET delta == VSub(ib.position, jetman_pos)
        distance == Length(delta)
        direction == IF distance # 0
                     THEN Vec(Rdiv(delta.x * Scale, distance),
                              Rdiv(delta.y * Scale, distance))
                     ELSE Vec(Scale, 0)
        correction == VScale(direction, distance - rest_length)
        total_mass == jb.mass + ib.mass
        jetman_ratio == Rdiv(ib.mass * Scale, total_mass)
        item_ratio == Rdiv(jb.mass * Scale, total_mass)
        relative_velocity == VSub(ib.velocity, jb.velocity)
        projected_velocity == Dot(relative_velocity, direction)
        velocity_correction == VScale(direction, projected_velocity)
    IN [jet |-> [jb EXCEPT
                   !.position = VAdd(@, VScale(correction, jetman_ratio)),
                   !.velocity = VAdd(@, VScale(velocity_correction, jetman_ratio))],
        item |-> [ib EXCEPT
                   !.position = VSub(@, VScale(correction, item_ratio)),
                   !.velocity = VSub(@, VScale(velocity_correction, item_ratio))]]

\* update, lines 126-146: the correction of two bodies at distance # 0
SolveBodies(jb, ib, jetman_pos, rest_length) ==
    LET delta == VSub(ib.position, jetman_pos)
        distance == Length(delta)
    IN IF distance # 0
       THEN LET direction == Vec(Rdiv(delta.x * Scale, distance),
                                 Rdiv(delta.y * Scale, distance))
                correction == VScale(direction, distance - rest_length)
                total_mass == jb.mass + ib.mass
                jetman_ratio == Rdiv(ib.mass * Scale, total_mass)
                item_ratio == Rdiv(jb.mass * Scale, total_mass)
                relative_velocity == VSub(ib.velocity, jb.velocity)
                projected_velocity == Dot(relative_velocity, direction)
                velocity_correction == VScale(direction, projected_velocity)
            IN [jet |-> [jb EXCEPT
                           !.position = VAdd(@, VScale(correction, jetman_ratio)),
                           !.velocity = VAdd(@, VScale(velocity_correction, jetman_ratio))],
                item |-> [ib EXCEPT
                           !.position = VSub(@, VScale(correction, item_ratio)),
                           !.velocity = VSub(@, VScale(velocity_correction, item_ratio))]]
       ELSE [jet |-> jb, item |-> ib]

\* update, lines 118-147: the rigid link
ConstraintStep(w, jetman_pos) ==
    IF w.panicked \/ w.jetman.linked_item = None THEN w
    ELSE LET id == w.jetman.linked_item[1]
         IN IF id >= Len(w.items) THEN [w EXCEPT !.panicked = TRUE]
            ELSE LET r == SolveBodies(w.jetman.body, w.items[id + 1].body,
                                      jetman_pos, w.jetman.link_distance)
                 IN [w EXCEPT !.jetman.body = r.jet, !.items[id + 1].body = r.item]

\* update, lines 149-153
IntegrateStep(w, dt) ==
    IF w.panicked THEN w
    ELSE [w EXCEPT !.jetman = JetmanUpdate(@, dt),
                   !.items = [k \in 1..Len(w.items) |->
                                [w.items[k] EXCEPT !.body = BodyUpdate(@, dt)]]]

RECURSIVE CollideLoop(_, _, _)
CollideLoop(w, terrain, t) ==
    IF t > Len(terrain) THEN w
    ELSE CollideLoop(
           [w EXCEPT !.jetman.body = check_collision(@, terrain[t]),
                     !.items = [k \in 1..Len(w.items) |->
                        [w.items[k] EXCEPT
                           !.body = check_collision(@, terrain[t]),
                           !.hit = @ \/ check_collision(w.items[k].body, terrain[t])
                                          # w.items[k].body]]],
           terrain, t + 1)

\* update, lines 155-161
CollisionStep(w, terrain) == IF w.panicked THEN w ELSE CollideLoop(w, terrain, 1)

\* an update that links before it looks for a delivery
UpdateStagesLinkFirst(w, sc, input, dt) ==
    LET w1 == InputStep(w, input, sc.gravity)
        w2 == AutoLinkStep(w1)
        w3 == TeleportStep(w2, sc.teleports)
        jetman_pos == w3.jetman.body.position
        w4 == SeverStep(w3, input)
        w5 == ConstraintStep(w4, jetman_pos)
        w6 == IntegrateStep(w5, dt)
        w7 == CollisionStep(w6, sc.terrain)
    IN [forces |-> w1, teleport |-> w3, autolink |-> w2, sever |-> w4,
        solve |-> w5, integrate |-> w6, done |-> w7, dt |-> dt]

\* World::update: the world after each step of one call
UpdateStages(w, sc, input, dt) ==
    LET w1 == InputStep(w, input, sc.gravity)
        w2 == TeleportStep(w1, sc.teleports)
        jetman_pos == w2.jetman.body.position
        w3 == AutoLinkStep(w2)
        w4 == SeverStep(w3, input)
        w5 == ConstraintStep(w4, jetman_pos)
        w6 == IntegrateStep(w5, dt)
        w7 == CollisionStep(w6, sc.terrain)
    IN [forces |-> w1, teleport |-> w2, autolink |-> w3, sever |-> w4,
        solve |-> w5, integrate |-> w6, done |-> w7, dt |-> dt]

---------------------------------------------------------------------------
(* The frame loop: update, draw, update, draw, ... *)

\* ui.rs: the snapshots of the keyboard (both turns at once left out: they cancel)
InputState ==
    {i \in [thrust : BOOLEAN, turn_left : BOOLEAN, turn_right : BOOLEAN,
            sever_link : BOOLEAN] : ~(i.turn_left /\ i.turn_right)}

NoInput == [thrust |-> FALSE, turn_left |-> FALSE, turn_right |-> FALSE,
            sever_link |-> FALSE]

\* get_frame_time() * 20.0, for frames of 1/20 s: dt = 1.0
DtSet == {Scale}

\* the random draws of the ground: none, and a profile within [0, 80)
Flat == [k \in 1..(Segments + 1) |-> 0]

Rugged == [k \in 1..(Segments + 1) |-> ((k * 37) % 80) * Scale]

\* where Jetman and the items are constructed, and the ground drawn
Layouts ==
    {[jet |-> V(200, 200), items |-> <<V(100, 200)>>, jitter |-> Rugged],
     [jet |-> V(400, 250), items |-> <<V(400, 296)>>, jitter |-> Flat],
     [jet |-> V(400, 250), items |-> <<V(400, 230), V(400, 296)>>, jitter |-> Rugged],
     [jet |-> V(400, 250), items |-> <<V(400, 296), V(400, 199)>>, jitter |-> Flat],
     [jet |-> V(200, 200), items |-> <<V(170, 200), V(256, 200)>>, jitter |-> Flat],
     [jet |-> V(200, 200), items |-> <<V(200, 200)>>, jitter |-> Flat],
     [jet |-> V(200, 200), items |-> <<V(230, 200), Vec(14015, 20000)>>, jitter |-> Flat],
     [jet |-> V(400, 490), items |-> <<V(400, 520), V(430, 450)>>, jitter |-> Flat],
     [jet |-> V(400, 490), items |-> <<V(400, 520), V(430, 450)>>, jitter |-> Rugged]}

\* no call of a single function is under way
Idle == [op |-> "none"]

Init ==
    /\ \E l \in Layouts : world = WorldNew(l) /\ scene = SceneNew(l)
    /\ pre = world
    /\ inp = NoInput
    /\ mid = UpdateStages(world, scene, NoInput, 0)
    /\ phase = "update"
    /\ tick = 0
    /\ drawn = None
    /\ call = Idle

\* one call of World::update, in a run of at most n calls
UpdateUpTo(n) ==
    /\ phase = "update"
    /\ tick < n
    /\ ~world.panicked
    /\ \E input \in InputState, dt \in DtSet :
          /\ mid' = UpdateStages(world, scene, input, dt)
          /\ world' = mid'.done
          /\ inp' = input
    /\ pre' = world
    /\ tick' = tick + 1
    /\ phase' = "draw"
    /\ UNCHANGED <<scene, drawn, call>>

Update == UpdateUpTo(MaxTicks)

\* World::draw, lines 189-195: the line from Jetman to the linked item
Draw ==
    /\ phase = "draw"
    /\ ~world.panicked
    /\ IF world.jetman.linked_item = None
       THEN drawn' = None /\ UNCHANGED world
       ELSE LET id == world.jetman.linked_item[1]
            IN IF id >= Len(world.items)
               THEN drawn' = None /\ world' = [world EXCEPT !.panicked = TRUE]
               ELSE /\ drawn' = <<world.jetman.body.position,
                                  world.items[id + 1].body.position>>
                    /\ UNCHANGED world
    /\ phase' = "update"
    /\ UNCHANGED <<scene, pre, inp, mid, tick, call>>

Next == Update \/ Draw

Spec == Init /\ [][Next]_vars

(* Longer runs of the frame loop from two of the layouts *)

\* the number of calls of update in a longer run
MaxLongTicks == 4

LongLayouts ==
    {[jet |-> V(200, 200), items |-> <<V(100, 200)>>, jitter |-> Rugged],
     [jet |-> V(200, 200), items |-> <<V(230, 200), Vec(14015, 20000)>>, jitter |-> Flat]}

LongInit ==
    /\ \E l \in LongLayouts : world = WorldNew(l) /\ scene = SceneNew(l)
    /\ pre = world
    /\ inp = NoInput
    /\ mid = UpdateStages(world, scene, NoInput, 0)
    /\ phase = "update"
    /\ tick = 0
    /\ drawn = None
    /\ call = Idle

LongUpdate == UpdateUpTo(MaxLongTicks)

LongNext == LongUpdate \/ Draw

LongSpec == LongInit /\ [][LongNext]_vars

---------------------------------------------------------------------------
(* Single functions on chosen arguments.  The frame loop stands still.       *)

Layout0 == [jet |-> V(200, 200), items |-> <<V(100, 200)>>, jitter |-> Flat]

Still ==
    /\ world = WorldNew(Layout0)
    /\ scene = SceneNew(Layout0)
    /\ pre = world
    /\ inp = NoInput
    /\ mid = UpdateStages(world, scene, NoInput, 0)
    /\ phase = "idle"
    /\ tick = 0
    /\ drawn = None

StillVars == <<world, scene, pre, inp, mid, phase, tick, drawn>>

(* The constraint step on a world of Jetman and one linked item *)

\* the longest link tried is 50 + MaxStretch * 20
MaxStretch == 3

\* directions with whole components, each of length 5
Directions == {Vec(5, 0), Vec(0, 5), Vec(-5, 0), Vec(0, -5),
               Vec(3, 4), Vec(-4, 3), Vec(-3, -4), Vec(4, -3)}

\* item - Jetman: nothing, and lengths 10, 30, 50, ..., 50 + MaxStretch * 20
Deltas ==
    {ZERO} \cup
    {Vec(d.x * (10 + 20 * k) * (Scale \div 5), d.y * (10 + 20 * k) * (Scale \div 5)) :
        d \in Directions, k \in 0..(MaxStretch + 2)}

Masses == {1, 3}

JetVelocities == {ZERO, Vec(100, -50)}

ItemVelocities == {ZERO, Vec(-40, 20)}

\* a world whose Jetman is linked to its only item
LinkedPair(delta, mj, mi, vj, vi) ==
    LET w == WorldNew([jet |-> V(200, 200), items |-> <<VAdd(V(200, 200), delta)>>])
    IN [w EXCEPT !.jetman.body.mass = mj, !.jetman.body.velocity = vj,
                 !.items[1].body.mass = mi, !.items[1].body.velocity = vi,
                 !.jetman.linked_item = Some(0), !.linked_tag = Some(1)]

SolveInit ==
    /\ Still
    /\ \E delta \in Deltas, mj \in Masses, mi \in Masses,
          vj \in JetVelocities, vi \in ItemVelocities :
          call = [op |-> "solve", done |-> FALSE,
                  w |-> LinkedPair(delta, mj, mi, vj, vi),
                  out |-> LinkedPair(delta, mj, mi, vj, vi)]

\* update, lines 118-147, on call.w
Solve ==
    /\ call.op = "solve" /\ ~call.done
    /\ call' = [call EXCEPT !.done = TRUE,
                            !.out = ConstraintStep(call.w, call.w.jetman.body.position)]
    /\ UNCHANGED StillVars

SolveSpec == SolveInit /\ [][Solve]_vars

\* the two bodies before and after the step
JetIn == call.w.jetman.body

ItemIn == call.w.items[1].body

JetOut == call.out.jetman.body

ItemOut == call.out.items[1].body

RestLength == 50 * Scale

\* C7: at a distance d > rest_length one pass moves Jetman by
\* correction * (item_mass / total_mass) and the item by
\* -correction * (jetman_mass / total_mass), correction = (d - rest_length) along
\* the unit vector from Jetman to the item; afterwards the distance is the rest
\* length, and the two displacements are in the ratio item_mass : jetman_mass.
C7_MassWeightedCorrection ==
    (call.op = "solve" /\ call.done
       /\ Dist2(ItemIn.position, JetIn.position) > RestLength * RestLength) =>
        LET delta == VSub(ItemIn.position, JetIn.position)
            d == ISqrt(LengthSquared(delta))
            total == JetIn.mass + ItemIn.mass
            dj == VSub(JetOut.position, JetIn.position)
            di == VSub(ItemOut.position, ItemIn.position)
        IN /\ d * d = LengthSquared(delta)
           /\ dj.x * d * total = delta.x * (d - RestLength) * ItemIn.mass
           /\ dj.y * d * total = delta.y * (d - RestLength) * ItemIn.mass
           /\ di.x * d * total = -(delta.x * (d - RestLength) * JetIn.mass)
           /\ di.y * d * total = -(delta.y * (d - RestLength) * JetIn.mass)
           /\ Dist2(ItemOut.position, JetOut.position) = RestLength * RestLength
           /\ LengthSquared(dj) * JetIn.mass * JetIn.mass
                = LengthSquared(di) * ItemIn.mass * ItemIn.mass

\* C7 witness: a stretched diagonal link between bodies of different mass
C7_Witness ==
    /\ call.op = "solve" /\ call.done
    /\ Dist2(ItemIn.position, JetIn.position) > RestLength * RestLength
    /\ JetIn.mass = 1 /\ ItemIn.mass = 3
    /\ ItemIn.position.x # JetIn.position.x /\ ItemIn.position.y # JetIn.position.y
    /\ JetOut.position # JetIn.position

\* C8: with Jetman and the linked item at the same position the constraint step
\* changes no position and no velocity (nothing is divided by the distance) and
\* the link stays.
C8_CoincidentUntouched ==
    (call.op = "solve" /\ call.done /\ ItemIn.position = JetIn.position) =>
        /\ JetOut = JetIn
        /\ ItemOut = ItemIn
        /\ call.out.jetman.linked_item = Some(0)
        /\ ~call.out.panicked

\* C8 witness: coincident bodies with different velocities
C8_Witness ==
    /\ call.op = "solve" /\ call.done
    /\ ItemIn.position = JetIn.position
    /\ ItemIn.velocity # JetIn.velocity
    /\ JetIn.velocity # ZERO

(* Body::apply_force and Body::update on one body *)

\* the number of calls made on the body
MaxOps == 3

BodyStarts == {V(0, 0), V(200, 200)}

BodyMasses == {1, 2, 4}

Forces == {Vec(400, -800), Vec(0, 1200), Vec(-400, 0)}

\* dt of 0.5, 1.0 and 2.0
Steps == {Scale \div 2, Scale, 2 * Scale}

IntegrateInit ==
    /\ Still
    /\ \E pos \in BodyStarts, m \in BodyMasses :
          call = [op |-> "integrate", body |-> BodyNew(pos, m), hist |-> <<>>]

\* hist holds each call made: its kind, its argument, the body before and after
ApplyForce ==
    /\ call.op = "integrate" /\ Len(call.hist) < MaxOps
    /\ \E f \in Forces :
          LET b == BodyApplyForce(call.body, f)
          IN call' = [call EXCEPT
                        !.body = b,
                        !.hist = Append(@, [kind |-> "apply_force", arg |-> f,
                                            before |-> call.body, after |-> b])]
    /\ UNCHANGED StillVars

UpdateBody ==
    /\ call.op = "integrate" /\ Len(call.hist) < MaxOps
    /\ \E dt \in Steps :
          LET b == BodyUpdate(call.body, dt)
          IN call' = [call EXCEPT
                        !.body = b,
                        !.hist = Append(@, [kind |-> "update", arg |-> dt,
                                            before |-> call.body, after |-> b])]
    /\ UNCHANGED StillVars

IntegrateNext == ApplyForce \/ UpdateBody

IntegrateSpec == IntegrateInit /\ [][IntegrateNext]_vars

\* the calls made so far
Hist == IF call.op = "integrate" THEN call.hist ELSE <<>>

\* C13: on a body of mass m > 0 at rest with no acceleration, apply_force(F)
\* followed by update(dt) gives velocity = (F / m) * dt and position =
\* position0 + velocity * dt with the new velocity; after every update the
\* acceleration is exactly zero, so a force does not carry over to the next
\* update.
C13_SemiImplicitEuler ==
    /\ \A k \in 1..Len(Hist) :
          Hist[k].kind = "update" => Hist[k].after.acceleration = ZERO
    /\ \A k \in 1..Len(Hist) - 1 :
          (/\ Hist[k].kind = "apply_force" /\ Hist[k + 1].kind = "update"
           /\ Hist[k].before.velocity = ZERO /\ Hist[k].before.acceleration = ZERO) =>
              LET b0 == Hist[k].before
                  b1 == Hist[k + 1].after
                  F == Hist[k].arg
                  dt == Hist[k + 1].arg
              IN /\ b0.mass > 0
                 /\ b0.mass * Scale * b1.velocity.x = F.x * dt
                 /\ b0.mass * Scale * b1.velocity.y = F.y * dt
                 /\ Scale * (b1.position.x - b0.position.x) = b1.velocity.x * dt
                 /\ Scale * (b1.position.y - b0.position.y) = b1.velocity.y * dt
    /\ \A k \in 1..Len(Hist) - 1 :
          (Hist[k].kind = "update" /\ Hist[k + 1].kind = "update") =>
              /\ Hist[k + 1].after.velocity = Hist[k].after.velocity
              /\ Scale * (Hist[k + 1].after.position.x - Hist[k].after.position.x)
                    = Hist[k].after.velocity.x * Hist[k + 1].arg
              /\ Scale * (Hist[k + 1].after.position.y - Hist[k].after.position.y)
                    = Hist[k].after.velocity.y * Hist[k + 1].arg

\* C13 witness: a force on a body at rest, an update, and one more update
C13_Witness ==
    /\ Len(Hist) = 3
    /\ Hist[1].kind = "apply_force" /\ Hist[1].arg.x # 0 /\ Hist[1].arg.y # 0
    /\ Hist[1].before.mass = 2
    /\ Hist[2].kind = "update" /\ Hist[2].arg = Scale \div 2
    /\ Hist[3].kind = "update"
    /\ Hist[3].after.position # Hist[2].after.position

(* check_collision on one body and one terrain *)

\* the body starts on a grid of GridN x GridN steps of 5.0
GridN == 12

GridStep == 5 * Scale

\* check_collision is called this often on the same body
MaxCalls == 2

GridPositions == {Vec(i * GridStep, j * GridStep) : i \in 0..GridN, j \in 0..GridN}

\* positions off the grid, at 5.0, 10.0, 15.0 and 20.0 from the lines and the
\* centre of the circle of Terrains along directions of a 3-4-5 triangle
FinePositions ==
    {V(29, 27), V(21, 33), V(33, 24), V(43, 54), V(7, 6), V(53, 24),
     V(33, 34), V(36, 38), V(39, 42), V(42, 46), V(24, 22),
     Vec(2001, 1000), Vec(2002, 1000)}

BodyPositions == GridPositions \cup FinePositions

BodyVelocities == {ZERO, Vec(30, 80), Vec(-60, -40), Vec(100, 200)}

Terrains ==
    {Rectangle(20 * Scale, 30 * Scale, 20 * Scale, 10 * Scale),
     Line(V(30, 30), V(30, 30)),
     Line(V(10, 20), V(50, 20)),
     Line(V(10, 10), V(40, 50)),
     Circle(V(30, 30), 10 * Scale),
     Polygon(<<V(20, 20), V(40, 20), V(40, 40), V(20, 40)>>),
     Polygon(<<V(0, 0), Vec(4000, 1999), Vec(0, 1999)>>)}

CollisionInit ==
    /\ Still
    /\ \E pos \in BodyPositions, vel \in BodyVelocities, t \in Terrains :
          call = [op |-> "collide", terrain |-> t,
                  trace |-> <<[BodyNew(pos, 1) EXCEPT !.velocity = vel]>>]

\* one more call of check_collision; trace holds the body before and after each
Collide ==
    /\ call.op = "collide" /\ Len(call.trace) <= MaxCalls
    /\ call' = [call EXCEPT !.trace =
                  Append(@, check_collision(call.trace[Len(call.trace)], call.terrain))]
    /\ UNCHANGED StillVars

CollisionSpec == CollisionInit /\ [][Collide]_vars

\* check_collision has been called
Collided == call.op = "collide" /\ Len(call.trace) >= 2

\* the body is on the segment p1 p2 (p1 # p2): no area between them, and
\* between the end points
OnSegment(pos, p1, p2) ==
    /\ (p2.x - p1.x) * (pos.y - p1.y) = (p2.y - p1.y) * (pos.x - p1.x)
    /\ (pos.x - p1.x) * (pos.x - p2.x) <= 0
    /\ (pos.y - p1.y) * (pos.y - p2.y) <= 0

\* C9 as stated: check_collision leaves finite values; a line of length zero
\* leaves the body alone; a body on a line segment or at the centre of a circle
\* is left alone, the correction being skipped.
C9_Original ==
    Collided =>
        LET t == call.terrain
            b0 == call.trace[1]
            b1 == call.trace[2]
        IN /\ IsFinite(b1.position) /\ IsFinite(b1.velocity)
           /\ (t.kind = "Line" /\ t.p1 = t.p2) => b1 = b0
           /\ (t.kind = "Line" /\ t.p1 # t.p2 /\ OnSegment(b0.position, t.p1, t.p2))
                 => b1 = b0
           /\ (t.kind = "Circle" /\ b0.position = t.center) => b1 = b0

\* the position is strictly inside the rectangle
StrictlyInside(pos, rect) ==
    /\ rect.x < pos.x /\ pos.x < rect.x + rect.w
    /\ rect.y < pos.y /\ pos.y < rect.y + rect.h

\* C10: a body strictly inside a rectangle gets position.y = rect.y - 1 and
\* velocity.y = -0.5 * velocity.y, x components unchanged, so it is outside and
\* a second call changes nothing; a body not strictly inside is left unchanged.
C10_RectangleResponse ==
    (Collided /\ call.terrain.kind = "Rectangle") =>
        LET r == call.terrain
            b0 == call.trace[1]
            b1 == call.trace[2]
        IN /\ StrictlyInside(b0.position, r) =>
                 /\ b1.position.y = r.y - Scale
                 /\ 2 * b1.velocity.y = -b0.velocity.y
                 /\ b1.position.x = b0.position.x
                 /\ b1.velocity.x = b0.velocity.x
                 /\ b1.acceleration = b0.acceleration /\ b1.mass = b0.mass
                 /\ ~StrictlyInside(b1.position, r)
           /\ ~StrictlyInside(b0.position, r) => b1 = b0
           /\ Len(call.trace) >= 3 => call.trace[3] = b1

\* C10 witness: a moving body strictly inside, after two calls
C10_Witness ==
    /\ Collided /\ call.terrain.kind = "Rectangle"
    /\ StrictlyInside(call.trace[1].position, call.terrain)
    /\ call.trace[1].velocity.y > 0
    /\ Len(call.trace) >= 3

RECURSIVE Gcd(_, _)
Gcd(a, b) == IF b = 0 THEN a ELSE Gcd(b, a % b)

\* the point of the segment p1 p2 (p1 # p2) closest to pos, computed in whole
\* numbers: ok tells that its coordinates are whole units of 1 / Scale
ClosestOnSegment(pos, p1, p2) ==
    LET lx == p2.x - p1.x
        ly == p2.y - p1.y
        g == Gcd(Abs(lx), Abs(ly))
        a == lx \div g
        b == ly \div g
        q == a * a + b * b
        s == a * (pos.x - p1.x) + b * (pos.y - p1.y)
    IN IF s <= 0 THEN [ok |-> TRUE, point |-> p1]
       ELSE IF s >= g * q THEN [ok |-> TRUE, point |-> p2]
       ELSE [ok |-> (a * s) % q = 0 /\ (b * s) % q = 0,
             point |-> Vec(p1.x + (a * s) \div q, p1.y + (b * s) \div q)]

\* the unit vector from base to pos in units of 1 / Scale, when pos is at the
\* whole distance d from base and the vector has whole components
UnitIsExact(pos, base) ==
    LET d == ISqrt(Dist2(pos, base))
    IN /\ d > 0 /\ d * d = Dist2(pos, base)
       /\ ((pos.x - base.x) * Scale) % d = 0
       /\ ((pos.y - base.y) * Scale) % d = 0

UnitFrom(pos, base) ==
    LET d == ISqrt(Dist2(pos, base))
    IN Vec(((pos.x - base.x) * Scale) \div d, ((pos.y - base.y) * Scale) \div d)

\* 0.5 * (v - 2 (v.n) n) has whole components, and so has every product on
\* the way to it
ReflectIsExact(v, n) ==
    LET dot == (v.x * n.x + v.y * n.y) \div Scale
    IN /\ (v.x * n.x) % Scale = 0 /\ (v.y * n.y) % Scale = 0
       /\ (2 * dot * n.x) % Scale = 0 /\ (2 * dot * n.y) % Scale = 0
       /\ (v.x - (2 * dot * n.x) \div Scale) % 2 = 0
       /\ (v.y - (2 * dot * n.y) \div Scale) % 2 = 0

\* the rounding of the unit normal to 1 / Scale moves the contact point by
\* less than one part in Scale of the contact distance
Tol(contact) == contact \div Scale

\* the response of check_collision to a body b0 near the point base of a line
\* or a circle whose contact distance is contact; b1 is the body returned
ContactResponse(b0, b1, base, contact) ==
    LET d2 == Dist2(b0.position, base)
        v == b0.velocity
        n == UnitFrom(b0.position, base)
    IN /\ d2 >= contact * contact => b1 = b0
       /\ (0 < d2 /\ d2 < contact * contact) =>
             /\ b1.acceleration = b0.acceleration /\ b1.mass = b0.mass
             /\ Dist2(b1.position, base) >= (contact - Tol(contact)) * (contact - Tol(contact))
             /\ Dist2(b1.position, base) <= (contact + Tol(contact)) * (contact + Tol(contact))
             /\ UnitIsExact(b0.position, base) =>
                   /\ Scale * (b1.position.x - base.x) = contact * n.x
                   /\ Scale * (b1.position.y - base.y) = contact * n.y
                   /\ Dist2(b1.position, base) = contact * contact
                   /\ ReflectIsExact(v, n) =>
                         /\ 2 * Scale * Scale * b1.velocity.x
                               = Scale * Scale * v.x - 2 * (v.x * n.x + v.y * n.y) * n.x
                         /\ 2 * Scale * Scale * b1.velocity.y
                               = Scale * Scale * v.y - 2 * (v.x * n.x + v.y * n.y) * n.y

\* C11: a body at a nonzero distance below the contact distance from a line
\* segment (10, from the closest point of the segment) or from the centre of
\* a circle (radius + 10) is moved to exactly the contact distance along the
\* unit normal n from that point to the body, and its velocity becomes
\* 0.5 * (v - 2 (v.n) n); at the contact distance or beyond, the body is
\* unchanged.  Exactly where n and the reflection are whole in units of
\* 1 / Scale, within one part in Scale of the contact distance elsewhere.
C11_ContactResponse ==
    Collided =>
        LET t == call.terrain
            b0 == call.trace[1]
            b1 == call.trace[2]
        IN /\ (t.kind = "Line" /\ t.p1 # t.p2) =>
                 LET c == ClosestOnSegment(b0.position, t.p1, t.p2)
                 IN c.ok => ContactResponse(b0, b1, c.point, ContactRadius)
           /\ t.kind = "Circle" =>
                 ContactResponse(b0, b1, t.center, t.radius + ContactRadius)

\* C11 witness: a body moving towards an oblique line, 5.0 from a point inside
\* the segment, is moved out and reflected
C11_Witness ==
    /\ Collided /\ call.terrain.kind = "Line"
    /\ call.terrain.p1.x # call.terrain.p2.x /\ call.terrain.p1.y # call.terrain.p2.y
    /\ LET t == call.terrain
           b0 == call.trace[1]
           b1 == call.trace[2]
           c == ClosestOnSegment(b0.position, t.p1, t.p2)
       IN /\ c.ok /\ c.point # t.p1 /\ c.point # t.p2
          /\ Dist2(b0.position, c.point) = 25 * Scale * Scale
          /\ UnitIsExact(b0.position, c.point)
          /\ ReflectIsExact(b0.velocity, UnitFrom(b0.position, c.point))
          /\ Dot(b0.velocity, UnitFrom(b0.position, c.point)) < 0
          /\ b1.position # b0.position /\ b1.velocity # b0.velocity

\* twice the signed area of the triangle a b p
Cross(a, b, p) == (b.x - a.x) * (p.y - a.y) - (b.y - a.y) * (p.x - a.x)

\* the signed areas of p against every edge of the polygon
EdgeSides(p, polygon) ==
    {Cross(polygon[i], polygon[(i % Len(polygon)) + 1], p) : i \in 1..Len(polygon)}

\* p is strictly inside the convex polygon: strictly on one side of all edges
StrictlyInsideConvex(p, polygon) ==
    \/ \A c \in EdgeSides(p, polygon) : c > 0
    \/ \A c \in EdgeSides(p, polygon) : c < 0

\* p is strictly outside the convex polygon: on both sides of some two edges
StrictlyOutsideConvex(p, polygon) ==
    /\ \E c \in EdgeSides(p, polygon) : c > 0
    /\ \E c \in EdgeSides(p, polygon) : c < 0

\* C12 as stated: point_in_polygon is true for every point strictly inside a
\* simple closed polygon and false for every point strictly outside, and a
\* point on a horizontal edge gets an answer; a contained body is shifted up by
\* exactly 2 with velocity.y = -0.5 * velocity.y, x components unchanged, and
\* a body not contained is left alone.
C12_Original ==
    (Collided /\ call.terrain.kind = "Polygon") =>
        LET poly == call.terrain.vertices
            b0 == call.trace[1]
            b1 == call.trace[2]
            inside == point_in_polygon(b0.position, poly)
        IN /\ StrictlyInsideConvex(b0.position, poly) => inside
           /\ StrictlyOutsideConvex(b0.position, poly) => ~inside
           /\ inside \in BOOLEAN
           /\ inside =>
                 /\ b1.position.y = b0.position.y - 2 * Scale
                 /\ 2 * b1.velocity.y = -b0.velocity.y
                 /\ b1.position.x = b0.position.x
                 /\ b1.velocity.x = b0.velocity.x
           /\ ~inside => b1 = b0

---------------------------------------------------------------------------
(* What the last update call did.  pre is the world the call started from,  *)
(* mid the world after each of its steps, world the world it left.          *)

\* an update call has run
Ran == tick > 0

\* the squares of the two radii
LinkRange2 == (50 * Scale) * (50 * Scale)

Trigger2 == (10 * Scale) * (10 * Scale)

Tags(w) == {w.items[k].tag : k \in 1..Len(w.items)}

LinkedAtStart == pre.jetman.linked_item # None

\* the item linked when the call started
StartItem == pre.items[pre.jetman.linked_item[1] + 1]

\* the item linked at the start is within the trigger radius of a teleporter
InTrigger(item) ==
    \E t \in 1..Len(scene.teleports) :
        Dist2(item.body.position, scene.teleports[t].position) < Trigger2

\* the indices (1-based) of the items in link range at the auto-link step
InRange == {k \in 1..Len(mid.teleport.items) :
              Dist2(mid.teleport.items[k].body.position, pre.jetman.body.position)
                 < LinkRange2}

SetMax(S) == CHOOSE m \in S : \A n \in S : n <= m

\* the link of w names an item of w, the one it was set to
LinkOk(w) ==
    \/ w.jetman.linked_item = None
    \/ /\ w.jetman.linked_item[1] < Len(w.items)
       /\ w.linked_tag = Some(w.items[w.jetman.linked_item[1] + 1].tag)

\* C1: wherever update and draw use linked_item as an index into items, the
\* index is below items.len() and names the item that was linked; no index out
\* of bounds is reachable.
C1_LinkIndexValid ==
    /\ ~world.panicked
    /\ LinkOk(world)
    /\ LinkOk(mid.forces) /\ LinkOk(mid.teleport) /\ LinkOk(mid.autolink)
    /\ LinkOk(mid.sever) /\ LinkOk(mid.solve)

\* C1 witness: the item at index 0 was removed in the last call, the item that
\* was behind it is linked at its new index, and draw has followed the link
C1_Witness ==
    /\ Ran /\ phase = "update"
    /\ Len(mid.teleport.items) < Len(pre.items)
    /\ world.jetman.linked_item = Some(0)
    /\ world.items[1].tag = 2
    /\ drawn # None

\* C2 as stated: the linked item within the trigger radius at the start of the
\* tick is gone at the end, linked_item is None and items.len() is one less.
C2_Original ==
    (Ran /\ LinkedAtStart /\ InTrigger(StartItem)) =>
        /\ StartItem.tag \notin Tags(world)
        /\ world.jetman.linked_item = None
        /\ Len(world.items) = Len(pre.items) - 1

\* C2 amended: the linked item within the trigger radius at the start of the
\* tick is gone at the end and items.len() is one less; linked_item is None
\* unless the auto-link step of the same tick linked another item, one within
\* link range of Jetman, and sever_link is false.
C2_Delivery ==
    (Ran /\ LinkedAtStart /\ InTrigger(StartItem)) =>
        /\ StartItem.tag \notin Tags(world)
        /\ Len(world.items) = Len(pre.items) - 1
        /\ mid.teleport.jetman.linked_item = None
        /\ \/ world.jetman.linked_item = None
           \/ /\ ~inp.sever_link
              /\ world.jetman.linked_item[1] + 1 \in InRange
              /\ world.items[world.jetman.linked_item[1] + 1].tag # StartItem.tag

\* C2 witness: a delivery with a second item in the world
C2_Witness ==
    /\ Ran /\ LinkedAtStart /\ InTrigger(StartItem)
    /\ Len(pre.items) = 2 /\ Len(world.items) = 1

\* C3: sever_link with a link in place at the sever step: at the end of the tick
\* there is no link, the item has velocity and acceleration zero, and the
\* constraint step has not moved it.
C3_SeverClears ==
    (Ran /\ inp.sever_link /\ mid.autolink.jetman.linked_item # None) =>
        LET k == mid.autolink.jetman.linked_item[1] + 1
        IN /\ world.jetman.linked_item = None
           /\ world.items[k].tag = mid.autolink.items[k].tag
           /\ world.items[k].body.velocity = ZERO
           /\ world.items[k].body.acceleration = ZERO
           /\ mid.solve.items[k].body.position = mid.autolink.items[k].body.position

\* C3 witness: the severed item was moving
C3_Witness ==
    /\ Ran /\ inp.sever_link /\ mid.autolink.jetman.linked_item # None
    /\ mid.autolink.items[mid.autolink.jetman.linked_item[1] + 1].body.velocity # ZERO

\* the item linked at the start is linked at the end
SameItemLinked ==
    /\ world.jetman.linked_item # None
    /\ world.jetman.linked_item[1] < Len(world.items)
    /\ world.items[world.jetman.linked_item[1] + 1].tag = StartItem.tag

\* C4 as stated: an item linked at the start of a tick without sever_link and
\* without delivery is the linked item at the end of the tick.
C4_Original ==
    (Ran /\ LinkedAtStart /\ ~inp.sever_link /\ ~InTrigger(StartItem)) => SameItemLinked

\* C4 amended: ... is the linked item at the end of the tick, whatever its
\* distance from Jetman, provided no other item is within link range of Jetman
\* at the auto-link step.
C4_Sticky ==
    (/\ Ran /\ LinkedAtStart /\ ~inp.sever_link /\ ~InTrigger(StartItem)
     /\ \A k \in InRange : mid.teleport.items[k].tag = StartItem.tag)
        => SameItemLinked

\* C4 witness: the linked item is out of link range and stays linked
C4_Witness ==
    /\ Ran /\ LinkedAtStart /\ ~inp.sever_link /\ ~InTrigger(StartItem)
    /\ InRange = {}
    /\ SameItemLinked

\* C5: without sever_link, an item present after the teleport step and closer
\* than 50 to Jetman's position at the start of the tick means a link at the end
\* of that tick.
C5_LinkedInTick ==
    (Ran /\ ~inp.sever_link /\ InRange # {}) => world.jetman.linked_item # None

\* C5 witness: no link at the start, an item in range, a link at the end
C5_Witness ==
    /\ Ran /\ ~inp.sever_link /\ InRange # {}
    /\ ~LinkedAtStart
    /\ world.jetman.linked_item # None

\* C6: the auto-link step leaves the highest index in range, whatever the link
\* was, and leaves the link alone when no item is in range.
C6_LastWriteWins ==
    Ran => mid.autolink.jetman.linked_item =
              IF InRange = {} THEN mid.teleport.jetman.linked_item
              ELSE Some(SetMax(InRange) - 1)

\* C6 witness: two items in range, the link was on the lower index, and the
\* higher index is not the nearer one
C6_Witness ==
    /\ Ran
    /\ mid.teleport.jetman.linked_item = Some(0)
    /\ InRange = {1, 2}
    /\ mid.autolink.jetman.linked_item = Some(1)
    /\ Dist2(mid.teleport.items[2].body.position, pre.jetman.body.position)
         > Dist2(mid.teleport.items[1].body.position, pre.jetman.body.position)


\* a call of update with no input, no link at its start nor made by it, and no
\* body changed by the terrain
QuietTick ==
    /\ Ran /\ inp = NoInput /\ ~world.panicked
    /\ pre.jetman.linked_item = None
    /\ mid.sever.jetman.linked_item = None
    /\ mid.done = mid.integrate

\* the body of the k-th item is the same after the call as before it
ItemUnchanged(k) == world.items[k].body = pre.items[k].body

\* what a quiet tick does to Jetman
JetmanFalls ==
    LET j0 == pre.jetman.body
        j1 == world.jetman.body
        g == scene.gravity
    IN /\ Scale * (j1.velocity.x - j0.velocity.x) = g.x * mid.dt
       /\ Scale * (j1.velocity.y - j0.velocity.y) = g.y * mid.dt
       /\ Scale * (j1.position.x - j0.position.x) = j1.velocity.x * mid.dt
       /\ Scale * (j1.position.y - j0.position.y) = j1.velocity.y * mid.dt
       /\ j1.acceleration = ZERO
       /\ (j0 = BodyNew(V(200, 200), 1) /\ mid.dt = Scale) =>
             j1.velocity = Vec(0, 1) /\ j1.position = Vec(20000, 20001)

\* an item never linked and never touched by the terrain is at rest where it
\* was constructed
UntouchedItemsStay ==
    \A k \in 1..Len(world.items) :
        (~world.items[k].linked /\ ~world.items[k].hit) =>
            world.items[k].body = BodyNew(world.items[k].spawn, 1)

Removed == {k \in 1..Len(pre.items) : pre.items[k].tag \notin Tags(world)}

\* the item is within link range of Jetman at the start of the call
InLinkRangeAtStart(item) ==
    Dist2(item.body.position, pre.jetman.body.position) < LinkRange2

\* C15: the teleport check runs before the auto-link and sees only the link
\* of the previous tick: an item not linked at the start of a tick is not
\* removed in that tick, even within the trigger radius and within link range;
\* it is delivered in the following tick at the earliest, and only if it is
\* within the trigger radius where the constraint solve and the integration
\* of the tick before have left it.
C15_DeliveryNeedsEarlierLink ==
    Ran =>
        \A k \in Removed :
            /\ LinkedAtStart /\ pre.jetman.linked_item = Some(k - 1)
            /\ pre.linked_tag = Some(pre.items[k].tag)
            /\ InTrigger(pre.items[k])
            /\ tick >= 2

\* C15 witness: an item constructed within the trigger radius and within link
\* range is linked, not removed, by the first tick, and delivered by the second
C15_Witness ==
    /\ tick = 2 /\ Removed # {}
    /\ \E k \in Removed :
          /\ Dist2(pre.items[k].spawn, scene.teleports[1].position) < Trigger2
          /\ InTrigger(pre.items[k])
          /\ InLinkRangeAtStart(pre.items[k])
          /\ pre.items[k].body.position # pre.items[k].spawn


\* the tags of the items in their order
TagSeq(items) == [k \in 1..Len(items) |-> items[k].tag]

\* C16: the items collection never grows and an item leaves it only by the
\* delivery of the linked item: over a call of update items.len() does not
\* increase and drops by at most one, the other items keep their order, and
\* the item removed has been linked; an item never linked is never removed.
C16_OnlyDeliveryRemoves ==
    Ran =>
        /\ Len(world.items) <= Len(pre.items)
        /\ Len(pre.items) - Len(world.items) <= 1
        /\ Cardinality(Removed) = Len(pre.items) - Len(world.items)
        /\ \A k \in Removed :
              /\ pre.items[k].linked
              /\ pre.jetman.linked_item = Some(k - 1)
              /\ TagSeq(world.items) = TagSeq(RemoveAt(pre.items, k))
        /\ Removed = {} => TagSeq(world.items) = TagSeq(pre.items)

\* C16 witness: of two items the linked one is delivered, and the other, never
\* linked before this call, is left
C16_Witness ==
    /\ Ran /\ Len(pre.items) = 2 /\ Len(world.items) = 1
    /\ Removed = {1}
    /\ pre.items[1].linked /\ ~pre.items[2].linked
    /\ ~mid.teleport.items[1].linked
    /\ world.items[1].tag = 2


\* C17: the flame timer is set to 2 by a tick with thrust and decremented by 1
\* by every tick, so at the end of a tick jetman.thrusting <= 1 and it is
\* positive, the flame drawn, exactly when thrust was requested in that tick;
\* without thrust it goes on decreasing by 1, below 0.
C17_FlameTimer ==
    Ran =>
        /\ world.jetman.thrusting =
              (IF inp.thrust THEN 2 ELSE pre.jetman.thrusting) - 1
        /\ world.jetman.thrusting <= 1
        /\ (world.jetman.thrusting > 0) <=> inp.thrust
        /\ FlameDrawn(world.jetman) <=> inp.thrust
        /\ ~inp.thrust => world.jetman.thrusting = pre.jetman.thrusting - 1

\* C17 witness: a tick without thrust takes the timer from below 0 further down
C17_Witness ==
    /\ Ran /\ ~inp.thrust
    /\ pre.jetman.thrusting < 0
    /\ world.jetman.thrusting = pre.jetman.thrusting - 1
    /\ ~FlameDrawn(world.jetman)

====
